---- MODULE Spec2Model ----
(***************************************************************************)
(* Model of the test-run orchestration core of app/routers/robot.py:       *)
(* trigger_robot_run (POST /robot/run), its background task                *)
(* execute_robot_suite, get_run_status (GET /robot/run-status/{id}), the   *)
(* RobotRun table and the process-wide running_tasks map.                  *)
(*                                                                         *)
(* Scheduling: trigger_robot_run is an async handler without await, so the *)
(* event loop runs one such handler at a time; execute_robot_suite and     *)
(* get_run_status are plain functions, which the framework runs on worker  *)
(* threads, so their statements interleave with the handler and with each  *)
(* other.  A background task is started only after the response of the     *)
(* handler that added it has been produced.                                *)
(***************************************************************************)
EXTENDS Integers, Sequences, FiniteSets, TLC

VARIABLES
    db,             \* table RobotRun: id -> row
    running_tasks,  \* robot.py:18, run id -> status dict
    handler,        \* the trigger_robot_run call on the event loop, and its last response
    tasks,          \* background tasks execute_robot_suite: run id -> thread state
    qry,            \* the get_run_status call that has just returned, and its response
    restarts,       \* number of process restarts so far
    returned,       \* history: run ids returned by trigger_robot_run, in order
    awaiting,       \* client: the run id returned last and not yet queried, or 0
    evicted,        \* history: the completed status dicts lost by process restarts
    seen            \* client: run id -> the status its last poll of that id saw

vars == <<db, running_tasks, handler, tasks, qry, restarts, returned, awaiting, evicted,
         seen>>

\* ---------------------------------------------------------------- bounds
MaxRuns == 2
MaxRestarts == 1

\* ------------------------------------------------------- Python values
\* Optional[T]: None is the empty tuple, a present value v is <<v>>.
None == <<>>
Some(v) == <<v>>

\* d[k] = v on a dict: adds the key or replaces its value.
DictSet(d, k, v) == [kk \in DOMAIN d \cup {k} |-> IF kk = k THEN v ELSE d[kk]]

\* datetime.now(): the wall clock, with one instant per process lifetime.
now == restarts

\* datetime.isoformat(): an injective rendering of the instant.
isoformat(t) == "T" \o ToString(t)

\* --------------------------------------------------------------- paths
\* A path is a sequence of tokens: " " is a blank, "~" the home marker,
\* "/" the root marker, any other token a path component.
Home == <<"/", "home">>
Cwd == <<"/", "srv">>

RECURSIVE lstrip(_)
lstrip(s) == IF s # <<>> /\ Head(s) = " " THEN lstrip(Tail(s)) ELSE s

RECURSIVE rstrip(_)
rstrip(s) == IF s # <<>> /\ s[Len(s)] = " " THEN rstrip(SubSeq(s, 1, Len(s) - 1)) ELSE s

strip(s) == rstrip(lstrip(s))

expanduser(s) == IF s # <<>> /\ Head(s) = "~" THEN Home \o Tail(s) ELSE s

abspath(s) == IF s # <<>> /\ Head(s) = "/" THEN s ELSE Cwd \o s

normalized_path(suite_path) == abspath(expanduser(strip(suite_path)))

\* The str "": no token.
EmptyStr == <<>>

\* Mutant of exists: the check of the suite path is missing.
exists_unchecked(p) == TRUE

\* The suites present on the server's filesystem.
ExistingPaths == { <<"/", "suites", "a.robot">>, <<"/", "home", "b.robot">> }

\* robot.py:30: os.path.exists
exists(p) == p \in ExistingPaths

\* Request bodies of POST /robot/run.
RobotRunRequest ==
    { [suite_path |-> <<"/", "suites", "a.robot">>, variables |-> None, extra_args |-> None],
      [suite_path |-> <<" ", "~", "b.robot", " ">>,
       variables |-> Some([ENV |-> "qa"]), extra_args |-> Some(<<"-i", "smoke">>)],
      [suite_path |-> <<"suites", "gone.robot">>, variables |-> None, extra_args |-> None] }

\* ------------------------------------------------------------ database
\* A row of table RobotRun, as trigger_robot_run creates it.
RobotRun(suite_path, created_at) ==
    [suite_path |-> suite_path, output_dir |-> EmptyStr, return_code |-> None,
     ok |-> FALSE, created_at |-> created_at]

\* Mutant of NextId: the id is derived from the in-memory map.
NextId_live == Cardinality(DOMAIN running_tasks) + 1

\* The primary key the database gives to the next inserted row.
NextId == IF DOMAIN db = {} THEN 1
          ELSE (CHOOSE m \in DOMAIN db : \A i \in DOMAIN db : i <= m) + 1

\* ------------------------------------------------------------ responses
NoResponse == [status_code |-> 0]
HTTPException(code, detail) == [status_code |-> code, detail |-> detail]
Ok(body) == [status_code |-> 200, body |-> body]

Idle == [pc |-> "idle", resp |-> NoResponse]

\* A response is in the state in which its call returns; the next step of
\* the system finds the caller gone.
Delivered(call) == IF call.pc = "done" THEN Idle ELSE call

Init ==
    /\ db = <<>>
    /\ running_tasks = <<>>
    /\ handler = Idle
    /\ tasks = <<>>
    /\ qry = Idle
    /\ restarts = 0
    /\ returned = <<>>
    /\ awaiting = 0
    /\ evicted = <<>>
    /\ seen = <<>>

\* ------------------------------------------------- trigger_robot_run
\* robot.py:29-34: the suite path does not exist, 400.
trigger_robot_run_reject(body) ==
    /\ handler.pc \in {"idle", "done"}
    /\ ~exists(normalized_path(body.suite_path))
    /\ handler' = [pc |-> "done",
                   resp |-> HTTPException(400, normalized_path(body.suite_path))]
    /\ qry' = Delivered(qry)
    /\ UNCHANGED <<db, running_tasks, tasks, restarts, returned, awaiting, evicted, seen>>

\* robot.py:29-41: the path exists; insert the placeholder row and read its id.
trigger_robot_run_insert(body) ==
    /\ handler.pc \in {"idle", "done"}
    /\ exists(normalized_path(body.suite_path))
    /\ NextId <= MaxRuns
    /\ db' = (NextId :> RobotRun(normalized_path(body.suite_path), now)) @@ db
    /\ handler' = [pc |-> "inserted", resp |-> NoResponse, run_id |-> NextId,
                   normalized_path |-> normalized_path(body.suite_path), body |-> body]
    /\ qry' = Delivered(qry)
    /\ UNCHANGED <<running_tasks, tasks, restarts, returned, awaiting, evicted, seen>>

\* Mutant of running_entry: the initial status is already "executing".
running_entry_executing(suite_path, t) ==
    [status |-> "executing", start_time |-> isoformat(t), suite_path |-> suite_path]

\* robot.py:44-48: the initial status dict.
running_entry(suite_path, t) ==
    [status |-> "running", start_time |-> isoformat(t), suite_path |-> suite_path]

\* Mutant of trigger_robot_run_return: the status dict is not stored.
trigger_robot_run_return_unregistered ==
    /\ handler.pc = "inserted"
    /\ tasks' = (handler.run_id :>
                    [pc |-> "scheduled", suite_path |-> handler.normalized_path,
                     variables |-> handler.body.variables,
                     extra_args |-> handler.body.extra_args,
                     outcome |-> "none", rc |-> None]) @@ tasks
    /\ handler' = [pc |-> "done",
                   resp |-> Ok([run_id |-> handler.run_id, status |-> "running",
                                message |-> "Test execution started",
                                suite_path |-> handler.normalized_path])]
    /\ returned' = Append(returned, handler.run_id)
    /\ awaiting' = handler.run_id
    /\ qry' = Delivered(qry)
    /\ UNCHANGED <<db, running_tasks, restarts, evicted, seen>>

\* robot.py:43-64: store the initial running status, add the background
\* task and return; the task is started once the response has been produced.
trigger_robot_run_return ==
    /\ handler.pc = "inserted"
    /\ running_tasks' = (handler.run_id :> running_entry(handler.normalized_path, now))
                            @@ running_tasks
    /\ tasks' = (handler.run_id :>
                    [pc |-> "scheduled", suite_path |-> handler.normalized_path,
                     variables |-> handler.body.variables,
                     extra_args |-> handler.body.extra_args,
                     outcome |-> "none", rc |-> None]) @@ tasks
    /\ handler' = [pc |-> "done",
                   resp |-> Ok([run_id |-> handler.run_id, status |-> "running",
                                message |-> "Test execution started",
                                suite_path |-> handler.normalized_path])]
    /\ returned' = Append(returned, handler.run_id)
    /\ awaiting' = handler.run_id
    /\ qry' = Delivered(qry)
    /\ UNCHANGED <<db, restarts, evicted, seen>>

\* ------------------------------------------------- execute_robot_suite
\* What the external processes of one run_robot_suite call do: whether the
\* robot executable can be started, and its exit code.
Executions ==
    { [launched |-> TRUE, returncode |-> 0],
      [launched |-> TRUE, returncode |-> 1],
      [launched |-> FALSE, returncode |-> 0] }

\* robot_runner.py:6-51: the exit code of the robot process, or the exception
\* of subprocess.run when the executable cannot be started.
run_robot_suite(x) ==
    IF x.launched
    THEN [raised |-> FALSE, returncode |-> x.returncode, error |-> ""]
    ELSE [raised |-> TRUE, returncode |-> 0,
          error |-> "[Errno 2] No such file or directory: 'robot'"]

\* robot.py:70: os.path.abspath(os.path.join("./data/robot_runs", str(run_id)))
out_dir(run_id) == abspath(<<"data", "robot_runs", ToString(run_id)>>)

\* Mutant of error_entry: the text of the exception is dropped.
error_entry_blank(e, suite_path) ==
    [status |-> "error", error |-> "", suite_path |-> suite_path]

\* robot.py:102-108: the status dict written by the except clause.
error_entry(e, suite_path) ==
    [status |-> "error", error |-> e, suite_path |-> suite_path]

\* Mutant of completed_entry: ok is set whatever the exit code.
completed_entry_ok(rc, suite_path, dir, t) ==
    [status |-> "completed", return_code |-> Some(rc), ok |-> TRUE,
     suite_path |-> suite_path, output_dir |-> dir,
     completion_time |-> isoformat(t)]

\* robot.py:93-100: the status dict written on completion.
completed_entry(rc, suite_path, dir, t) ==
    [status |-> "completed", return_code |-> Some(rc), ok |-> (rc = 0),
     suite_path |-> suite_path, output_dir |-> dir,
     completion_time |-> isoformat(t)]

\* Mutant of updated_row: output_dir is not written.
updated_row_nodir(run, dir, rc) ==
    [run EXCEPT !.return_code = Some(rc), !.ok = (rc = 0)]

\* Mutant of updated_row: ok tells that an exit code is present.
updated_row_notnone(run, dir, rc) ==
    [run EXCEPT !.output_dir = dir, !.return_code = Some(rc), !.ok = (Some(rc) # None)]

\* Mutant of updated_row: the directory is written to the wrong field.
updated_row_path(run, dir, rc) ==
    [run EXCEPT !.suite_path = dir, !.return_code = Some(rc), !.ok = (rc = 0)]

\* robot.py:85-88: the row with the outcome of the run.
updated_row(run, dir, rc) ==
    [run EXCEPT !.output_dir = dir, !.return_code = Some(rc), !.ok = (rc = 0)]

\* Mutant of execute_robot_suite_status: the status is left as it is.
execute_robot_suite_status_skipped(run_id) ==
    /\ run_id \in DOMAIN tasks
    /\ tasks[run_id].pc = "scheduled"
    /\ tasks' = [tasks EXCEPT ![run_id].pc = "status_set"]
    /\ handler' = Delivered(handler)
    /\ qry' = Delivered(qry)
    /\ UNCHANGED <<db, running_tasks, restarts, returned, awaiting, evicted, seen>>

\* robot.py:73: running_tasks[run_id]["status"] = "executing"; a missing key
\* raises KeyError, which the except clause turns into an error entry.
execute_robot_suite_status(run_id) ==
    /\ run_id \in DOMAIN tasks
    /\ tasks[run_id].pc = "scheduled"
    /\ IF run_id \in DOMAIN running_tasks
       THEN /\ running_tasks' = [running_tasks EXCEPT
                                    ![run_id] = DictSet(@, "status", "executing")]
            /\ tasks' = [tasks EXCEPT ![run_id].pc = "status_set"]
       ELSE /\ running_tasks' = (run_id :> error_entry(ToString(run_id),
                                                       tasks[run_id].suite_path))
                                    @@ running_tasks
            /\ tasks' = [tasks EXCEPT ![run_id].pc = "done", ![run_id].outcome = "raised"]
    /\ handler' = Delivered(handler)
    /\ qry' = Delivered(qry)
    /\ UNCHANGED <<db, restarts, returned, awaiting, evicted, seen>>

\* robot.py:74: running_tasks[run_id]["message"] = "Running test cases..."
execute_robot_suite_message(run_id) ==
    /\ run_id \in DOMAIN tasks
    /\ tasks[run_id].pc = "status_set"
    /\ running_tasks' = [running_tasks EXCEPT
                            ![run_id] = DictSet(@, "message", "Running test cases...")]
    /\ tasks' = [tasks EXCEPT ![run_id].pc = "executing"]
    /\ handler' = Delivered(handler)
    /\ qry' = Delivered(qry)
    /\ UNCHANGED <<db, restarts, returned, awaiting, evicted, seen>>

\* Mutant of execute_robot_suite_run: an exception of run_robot_suite is not
\* caught; it ends the task and the status dict stays as it is.
execute_robot_suite_run_uncaught(run_id, x) ==
    /\ run_id \in DOMAIN tasks
    /\ tasks[run_id].pc = "executing"
    /\ LET r == run_robot_suite(x) IN
       IF r.raised
       THEN tasks' = [tasks EXCEPT ![run_id].pc = "done", ![run_id].outcome = "raised"]
       ELSE tasks' = [tasks EXCEPT ![run_id].pc = "returned",
                                   ![run_id].rc = Some(r.returncode)]
    /\ handler' = Delivered(handler)
    /\ qry' = Delivered(qry)
    /\ UNCHANGED <<db, running_tasks, restarts, returned, awaiting, evicted, seen>>

\* robot.py:76-81 and 102-108: the call of run_robot_suite; an exception goes
\* to the except clause.
execute_robot_suite_run(run_id, x) ==
    /\ run_id \in DOMAIN tasks
    /\ tasks[run_id].pc = "executing"
    /\ LET r == run_robot_suite(x) IN
       IF r.raised
       THEN /\ running_tasks' = [running_tasks EXCEPT
                                    ![run_id] = error_entry(r.error, tasks[run_id].suite_path)]
            /\ tasks' = [tasks EXCEPT ![run_id].pc = "done", ![run_id].outcome = "raised"]
       ELSE /\ tasks' = [tasks EXCEPT ![run_id].pc = "returned",
                                      ![run_id].rc = Some(r.returncode)]
            /\ UNCHANGED running_tasks
    /\ handler' = Delivered(handler)
    /\ qry' = Delivered(qry)
    /\ UNCHANGED <<db, restarts, returned, awaiting, evicted, seen>>

\* Mutant of execute_robot_suite_update: the session raises after the row
\* has been written.
execute_robot_suite_update_halfway(run_id, committed) ==
    /\ run_id \in DOMAIN tasks
    /\ tasks[run_id].pc = "returned"
    /\ run_id \in DOMAIN db
    /\ db' = [db EXCEPT ![run_id] =
                 updated_row(@, out_dir(run_id), tasks[run_id].rc[1])]
    /\ IF committed
       THEN /\ tasks' = [tasks EXCEPT ![run_id].pc = "committed"]
            /\ UNCHANGED running_tasks
       ELSE /\ running_tasks' = [running_tasks EXCEPT
                                    ![run_id] = error_entry("database is locked",
                                                            tasks[run_id].suite_path)]
            /\ tasks' = [tasks EXCEPT ![run_id].pc = "done", ![run_id].rc = None,
                                      ![run_id].outcome = "update_failed"]
    /\ handler' = Delivered(handler)
    /\ qry' = Delivered(qry)
    /\ UNCHANGED <<restarts, returned, awaiting, evicted, seen>>

\* robot.py:84-90 and 102-108: update the row; when the session raises
\* (committed = FALSE), or the row is missing and run.output_dir raises
\* AttributeError, the except clause records the error and the row is left
\* as it was.
execute_robot_suite_update(run_id, committed) ==
    /\ run_id \in DOMAIN tasks
    /\ tasks[run_id].pc = "returned"
    /\ IF committed /\ run_id \in DOMAIN db
       THEN /\ db' = [db EXCEPT ![run_id] =
                         updated_row(@, out_dir(run_id), tasks[run_id].rc[1])]
            /\ tasks' = [tasks EXCEPT ![run_id].pc = "committed"]
            /\ UNCHANGED running_tasks
       ELSE /\ running_tasks' = [running_tasks EXCEPT
                                    ![run_id] = error_entry(
                                        IF run_id \in DOMAIN db
                                        THEN "database is locked"
                                        ELSE "'NoneType' object has no attribute 'output_dir'",
                                        tasks[run_id].suite_path)]
            /\ tasks' = [tasks EXCEPT ![run_id].pc = "done", ![run_id].rc = None,
                                      ![run_id].outcome = "update_failed"]
            /\ UNCHANGED db
    /\ handler' = Delivered(handler)
    /\ qry' = Delivered(qry)
    /\ UNCHANGED <<restarts, returned, awaiting, evicted, seen>>

\* Mutant of execute_robot_suite_complete: the status dict is replaced as
\* soon as the executor has returned, before the row is written.
execute_robot_suite_complete_first(run_id) ==
    /\ run_id \in DOMAIN tasks
    /\ tasks[run_id].pc \in {"returned", "committed"}
    /\ running_tasks' = [running_tasks EXCEPT
                            ![run_id] = completed_entry(tasks[run_id].rc[1],
                                                        tasks[run_id].suite_path,
                                                        out_dir(run_id), now)]
    /\ tasks' = [tasks EXCEPT ![run_id].pc = "done", ![run_id].outcome = "completed"]
    /\ handler' = Delivered(handler)
    /\ qry' = Delivered(qry)
    /\ UNCHANGED <<db, restarts, returned, awaiting, evicted, seen>>

\* robot.py:93-100: replace the status dict by the completed one.
execute_robot_suite_complete(run_id) ==
    /\ run_id \in DOMAIN tasks
    /\ tasks[run_id].pc = "committed"
    /\ running_tasks' = [running_tasks EXCEPT
                            ![run_id] = completed_entry(tasks[run_id].rc[1],
                                                        tasks[run_id].suite_path,
                                                        out_dir(run_id), now)]
    /\ tasks' = [tasks EXCEPT ![run_id].pc = "done", ![run_id].outcome = "completed"]
    /\ handler' = Delivered(handler)
    /\ qry' = Delivered(qry)
    /\ UNCHANGED <<db, restarts, returned, awaiting, evicted, seen>>

\* ------------------------------------------------------ get_run_status
\* robot.py:122-129: the view built from a row.
synthesized(run) ==
    [status |-> "completed", return_code |-> run.return_code, ok |-> run.ok,
     suite_path |-> run.suite_path, output_dir |-> run.output_dir,
     created_at |-> isoformat(run.created_at)]

\* Mutant of get_run_status: a row without exit code counts as absent.
get_run_status_finished(run_id) ==
    /\ qry' = [pc |-> "done", run_id |-> run_id, first |-> run_id = awaiting,
               resp |-> IF run_id \in DOMAIN running_tasks
                        THEN Ok(running_tasks[run_id])
                        ELSE IF run_id \in DOMAIN db /\ db[run_id].return_code # None
                        THEN Ok(synthesized(db[run_id]))
                        ELSE HTTPException(404, "Run not found")]
    /\ awaiting' = IF run_id = awaiting THEN 0 ELSE awaiting
    /\ handler' = Delivered(handler)
    /\ UNCHANGED <<db, running_tasks, tasks, restarts, returned, evicted, seen>>

\* robot.py:111-131: the dict of the run id in running_tasks; without one,
\* the view of the row of the run id; without a row, 404.
get_run_status(run_id) ==
    /\ qry' = [pc |-> "done", run_id |-> run_id, first |-> run_id = awaiting,
               resp |-> IF run_id \in DOMAIN running_tasks
                        THEN Ok(running_tasks[run_id])
                        ELSE IF run_id \in DOMAIN db
                        THEN Ok(synthesized(db[run_id]))
                        ELSE HTTPException(404, "Run not found")]
    /\ awaiting' = IF run_id = awaiting THEN 0 ELSE awaiting
    /\ handler' = Delivered(handler)
    /\ UNCHANGED <<db, running_tasks, tasks, restarts, returned, evicted, seen>>

\* --------------------------------------------------------- environment
\* The process stops and starts again: running_tasks is empty (robot.py:18),
\* the calls and background tasks in progress are gone, the database stays.
Restart ==
    /\ restarts < MaxRestarts
    /\ restarts' = restarts + 1
    /\ evicted' = [i \in {j \in DOMAIN running_tasks : running_tasks[j].status = "completed"}
                        |-> running_tasks[i]] @@ evicted
    /\ running_tasks' = <<>>
    /\ handler' = Idle
    /\ qry' = Idle
    /\ tasks' = [i \in DOMAIN tasks |->
                    IF tasks[i].pc = "done" THEN tasks[i]
                    ELSE [tasks[i] EXCEPT !.pc = "killed", !.rc = None]]
    /\ UNCHANGED <<db, returned, awaiting, seen>>

RunIds == 1 .. MaxRuns + 1

Next ==
    \/ \E body \in RobotRunRequest : trigger_robot_run_reject(body)
    \/ \E body \in RobotRunRequest : trigger_robot_run_insert(body)
    \/ trigger_robot_run_return
    \/ \E run_id \in RunIds : execute_robot_suite_status(run_id)
    \/ \E run_id \in RunIds : execute_robot_suite_message(run_id)
    \/ \E run_id \in RunIds, x \in Executions : execute_robot_suite_run(run_id, x)
    \/ \E run_id \in RunIds, committed \in BOOLEAN : execute_robot_suite_update(run_id, committed)
    \/ \E run_id \in RunIds : execute_robot_suite_complete(run_id)
    \/ \E run_id \in RunIds : get_run_status(run_id)
    \/ Restart

Spec == Init /\ [][Next]_vars

\* ------------------------------------- responses returned by reference
\* robot.py:116 returns the dict that running_tasks holds, not a copy; the
\* framework encodes the returned object after get_run_status has returned.
\* robot.py:73-74 change that object in place, robot.py:93 and 104 put a
\* new object in the map.  The content of the object that a call returned,
\* at the time it is encoded: a view built from a row, and a completed or
\* error dict, have no other holder; the running dict is the one in the map
\* until the task replaces it, which it does after both in-place writes.
returned_object(run_id, ret) ==
    IF ret.status_code # 200 THEN ret
    ELSE IF "created_at" \in DOMAIN ret.body THEN ret
    ELSE IF ret.body.status \notin {"running", "executing"} THEN ret
    ELSE IF run_id \in DOMAIN running_tasks
              /\ running_tasks[run_id].status \in {"running", "executing"}
         THEN Ok(running_tasks[run_id])
         ELSE Ok(DictSet(DictSet(ret.body, "status", "executing"),
                         "message", "Running test cases..."))

\* robot.py:111-131: get_run_status up to its return statement.
get_run_status_return(run_id) ==
    /\ qry.pc \in {"idle", "done"}
    /\ qry' = [pc |-> "returned", run_id |-> run_id, first |-> run_id = awaiting,
               resp |-> NoResponse,
               ret |-> IF run_id \in DOMAIN running_tasks
                       THEN Ok(running_tasks[run_id])
                       ELSE IF run_id \in DOMAIN db
                       THEN Ok(synthesized(db[run_id]))
                       ELSE HTTPException(404, "Run not found")]
    /\ awaiting' = IF run_id = awaiting THEN 0 ELSE awaiting
    /\ handler' = Delivered(handler)
    /\ UNCHANGED <<db, running_tasks, tasks, restarts, returned, evicted, seen>>

\* The framework encodes the returned object into the response body.
serialize_response ==
    /\ qry.pc = "returned"
    /\ qry' = [qry EXCEPT !.pc = "done", !.resp = returned_object(qry.run_id, qry.ret)]
    /\ handler' = Delivered(handler)
    /\ UNCHANGED <<db, running_tasks, tasks, restarts, returned, awaiting, evicted, seen>>

NextByReference ==
    \/ \E body \in RobotRunRequest : trigger_robot_run_reject(body)
    \/ \E body \in RobotRunRequest : trigger_robot_run_insert(body)
    \/ trigger_robot_run_return
    \/ \E run_id \in RunIds : execute_robot_suite_status(run_id)
    \/ \E run_id \in RunIds : execute_robot_suite_message(run_id)
    \/ \E run_id \in RunIds, x \in Executions : execute_robot_suite_run(run_id, x)
    \/ \E run_id \in RunIds, committed \in BOOLEAN : execute_robot_suite_update(run_id, committed)
    \/ \E run_id \in RunIds : execute_robot_suite_complete(run_id)
    \/ \E run_id \in RunIds : get_run_status_return(run_id)
    \/ serialize_response
    \/ Restart

\* The system with status responses encoded after the handler returned.
SpecByReference == Init /\ [][NextByReference]_vars

\* ------------------------------------------------------------- presets
\* Request bodies of POST /robot/presets, in the order of their creation.
RobotPresetBody ==
    << [name |-> "smoke", suite_path |-> <<" ", "~", "b.robot", " ">>,
        variables |-> Some([ENV |-> "qa"]), tags |-> Some(<<"smoke", "">>),
        extra_args |-> Some(<<"--dryrun">>)],
       [name |-> "gone", suite_path |-> <<"suites", "gone.robot">>,
        variables |-> None, tags |-> None, extra_args |-> None] >>

\* json.dumps and json.loads: the text of a value, and the value of a text.
json_dumps(v) == [json |-> v]
json_loads(text) == text.json

\* robot.py:173-176: ["-i", t] for every non-empty tag.
RECURSIVE tag_args(_)
tag_args(tags) ==
    IF tags = <<>> THEN <<>>
    ELSE (IF Head(tags) # "" THEN <<"-i", Head(tags)>> ELSE <<>>) \o tag_args(Tail(tags))

\* robot.py:171-184: the row that create_preset stores for a body.
create_preset(body) ==
    LET extras == (IF body.tags # None THEN tag_args(body.tags[1]) ELSE <<>>)
                  \o (IF body.extra_args # None THEN body.extra_args[1] ELSE <<>>)
    IN [name |-> body.name,
        suite_path |-> normalized_path(body.suite_path),
        variables_json |-> IF body.variables = None THEN None
                           ELSE Some(json_dumps(body.variables[1])),
        extra_args_json |-> IF extras # <<>> THEN Some(json_dumps(extras)) ELSE None]

\* Table RobotPreset: id -> row, after the creation of the presets above.
RobotPreset == [i \in DOMAIN RobotPresetBody |-> create_preset(RobotPresetBody[i])]

PresetIds == 1 .. Len(RobotPresetBody) + 1

\* robot.py:206-209: no preset has the id, 404.
run_preset_not_found(preset_id) ==
    /\ handler.pc \in {"idle", "done"}
    /\ preset_id \notin DOMAIN RobotPreset
    /\ handler' = [pc |-> "done", resp |-> HTTPException(404, "Preset not found")]
    /\ qry' = Delivered(qry)
    /\ UNCHANGED <<db, running_tasks, tasks, restarts, returned, awaiting, evicted, seen>>

\* robot.py:206-219: read the preset, insert the placeholder row and read
\* its id.
run_preset_insert(preset_id) ==
    /\ handler.pc \in {"idle", "done"}
    /\ preset_id \in DOMAIN RobotPreset
    /\ NextId <= MaxRuns
    /\ LET preset == RobotPreset[preset_id] IN
       /\ db' = (NextId :> RobotRun(preset.suite_path, now)) @@ db
       /\ handler' = [pc |-> "preset_inserted", resp |-> NoResponse, run_id |-> NextId,
                      preset_id |-> preset_id,
                      variables |-> IF preset.variables_json # None
                                    THEN Some(json_loads(preset.variables_json[1]))
                                    ELSE None,
                      extra_args |-> IF preset.extra_args_json # None
                                     THEN Some(json_loads(preset.extra_args_json[1]))
                                     ELSE None]
    /\ qry' = Delivered(qry)
    /\ UNCHANGED <<running_tasks, tasks, restarts, returned, awaiting, evicted, seen>>

\* robot.py:221-243: store the initial running status with the preset name,
\* add the background task and return.
run_preset_return ==
    /\ handler.pc = "preset_inserted"
    /\ LET preset == RobotPreset[handler.preset_id] IN
       /\ running_tasks' = (handler.run_id :>
                               [status |-> "running", start_time |-> isoformat(now),
                                suite_path |-> preset.suite_path,
                                preset_name |-> preset.name]) @@ running_tasks
       /\ tasks' = (handler.run_id :>
                       [pc |-> "scheduled", suite_path |-> preset.suite_path,
                        variables |-> handler.variables,
                        extra_args |-> handler.extra_args,
                        outcome |-> "none", rc |-> None]) @@ tasks
       /\ handler' = [pc |-> "done",
                      resp |-> Ok([run_id |-> handler.run_id, status |-> "running",
                                   message |-> "Preset '" \o preset.name
                                                   \o "' execution started",
                                   suite_path |-> preset.suite_path])]
    /\ returned' = Append(returned, handler.run_id)
    /\ awaiting' = handler.run_id
    /\ qry' = Delivered(qry)
    /\ UNCHANGED <<db, restarts, evicted, seen>>

\* ------------------------------------------------------------ list_runs
\* robot.py:138: limit(100)
ListLimit == 100

\* order_by(RobotRun.id.desc()): the ids from the largest down.
RECURSIVE id_desc(_)
id_desc(ids) ==
    IF ids = {} THEN <<>>
    ELSE LET m == CHOOSE m \in ids : \A i \in ids : i <= m
         IN <<m>> \o id_desc(ids \ {m})

\* robot.py:134-151: the newest rows with their artifact URLs.
list_runs ==
    /\ LET ids == id_desc(DOMAIN db)
           runs == SubSeq(ids, 1, IF Len(ids) < ListLimit THEN Len(ids) ELSE ListLimit)
       IN qry' = [pc |-> "done", run_id |-> 0, first |-> FALSE,
                  resp |-> Ok([k \in DOMAIN runs |->
                      LET r == db[runs[k]] IN
                      [id |-> runs[k], ok |-> r.ok, return_code |-> r.return_code,
                       suite_path |-> r.suite_path,
                       created_at |-> isoformat(r.created_at),
                       allure_index |-> "/files/robot_runs/" \o ToString(runs[k])
                                            \o "/allure-report/index.html",
                       log_html |-> "/files/robot_runs/" \o ToString(runs[k])
                                        \o "/log.html",
                       report_html |-> "/files/robot_runs/" \o ToString(runs[k])
                                           \o "/report.html"]])]
    /\ handler' = Delivered(handler)
    /\ UNCHANGED <<db, running_tasks, tasks, restarts, returned, awaiting, evicted, seen>>

NextPreset ==
    \/ \E body \in RobotRunRequest : trigger_robot_run_reject(body)
    \/ \E body \in RobotRunRequest : trigger_robot_run_insert(body)
    \/ trigger_robot_run_return
    \/ \E run_id \in RunIds : execute_robot_suite_status(run_id)
    \/ \E run_id \in RunIds : execute_robot_suite_message(run_id)
    \/ \E run_id \in RunIds, x \in Executions : execute_robot_suite_run(run_id, x)
    \/ \E run_id \in RunIds, committed \in BOOLEAN : execute_robot_suite_update(run_id, committed)
    \/ \E run_id \in RunIds : execute_robot_suite_complete(run_id)
    \/ \E run_id \in RunIds : get_run_status(run_id)
    \/ Restart
    \/ list_runs
    \/ \E preset_id \in PresetIds : run_preset_not_found(preset_id)
    \/ \E preset_id \in PresetIds : run_preset_insert(preset_id)
    \/ run_preset_return

\* The system with runs submitted from presets as well.
SpecPreset == Init /\ [][NextPreset]_vars

\* ------------------------------------------------- a process that lives
\* The process keeps running: no restart.  The status queries, which write
\* neither the rows nor running_tasks, are left to the other specifications.
NextLive ==
    \/ \E body \in RobotRunRequest : trigger_robot_run_reject(body)
    \/ \E body \in RobotRunRequest : trigger_robot_run_insert(body)
    \/ trigger_robot_run_return
    \/ \E run_id \in RunIds : execute_robot_suite_status(run_id)
    \/ \E run_id \in RunIds : execute_robot_suite_message(run_id)
    \/ \E run_id \in RunIds, x \in Executions : execute_robot_suite_run(run_id, x)
    \/ \E run_id \in RunIds, committed \in BOOLEAN : execute_robot_suite_update(run_id, committed)
    \/ \E run_id \in RunIds : execute_robot_suite_complete(run_id)

\* The event loop finishes a handler it has started; the framework starts
\* every added background task and a started task goes on to its end, the
\* call of run_robot_suite returning or raising and the session committing
\* or raising.
Fairness ==
    /\ WF_vars(trigger_robot_run_return)
    /\ \A run_id \in RunIds :
           /\ WF_vars(execute_robot_suite_status(run_id))
           /\ WF_vars(execute_robot_suite_message(run_id))
           /\ WF_vars(\E x \in Executions : execute_robot_suite_run(run_id, x))
           /\ WF_vars(\E committed \in BOOLEAN : execute_robot_suite_update(run_id, committed))
           /\ WF_vars(execute_robot_suite_complete(run_id))

SpecLive == Init /\ [][NextLive]_vars /\ Fairness

\* ------------------------------------------------------ a polling client
\* A client calls get_run_status (robot.py:111-131) for a run id and keeps
\* the status of the answer, when there is one.
poll_run_status(run_id) ==
    /\ qry' = [pc |-> "done", run_id |-> run_id, first |-> run_id = awaiting,
               resp |-> IF run_id \in DOMAIN running_tasks
                        THEN Ok(running_tasks[run_id])
                        ELSE IF run_id \in DOMAIN db
                        THEN Ok(synthesized(db[run_id]))
                        ELSE HTTPException(404, "Run not found")]
    /\ seen' = IF qry'.resp.status_code = 200
               THEN DictSet(seen, run_id, qry'.resp.body.status)
               ELSE seen
    /\ awaiting' = IF run_id = awaiting THEN 0 ELSE awaiting
    /\ handler' = Delivered(handler)
    /\ UNCHANGED <<db, running_tasks, tasks, restarts, returned, evicted>>

NextPoll ==
    \/ \E body \in RobotRunRequest : trigger_robot_run_reject(body)
    \/ \E body \in RobotRunRequest : trigger_robot_run_insert(body)
    \/ trigger_robot_run_return
    \/ \E preset_id \in PresetIds : run_preset_not_found(preset_id)
    \/ \E preset_id \in PresetIds : run_preset_insert(preset_id)
    \/ run_preset_return
    \/ \E run_id \in RunIds : execute_robot_suite_status(run_id)
    \/ \E run_id \in RunIds : execute_robot_suite_message(run_id)
    \/ \E run_id \in RunIds, x \in Executions : execute_robot_suite_run(run_id, x)
    \/ \E run_id \in RunIds, committed \in BOOLEAN : execute_robot_suite_update(run_id, committed)
    \/ \E run_id \in RunIds : execute_robot_suite_complete(run_id)
    \/ \E run_id \in RunIds : poll_run_status(run_id)

\* Submissions, preset runs and background tasks in one process lifetime,
\* with a client that polls.
SpecPoll == Init /\ [][NextPoll]_vars

\* ------------------------------------------- run_robot_suite, step by step
\* What the robot process of one call does: whether it can be started, its
\* exit code, and whether its listener leaves an allure-results directory.
Processes ==
    { [launched |-> TRUE, returncode |-> rc, results |-> res] :
          rc \in {0, 1}, res \in BOOLEAN }
    \cup { [launched |-> FALSE, returncode |-> 0, results |-> FALSE] }

\* What the allure command does when it is called.
AllureOutcomes == {"generated", "failed", "absent"}

\* robot_runner.py:20-22: "-v", "k:v" for every variable, in the order of
\* the dict.
RECURSIVE variable_args(_, _)
variable_args(variables, keys) ==
    IF keys = {} THEN <<>>
    ELSE LET k == CHOOSE k \in keys : TRUE
         IN <<"-v", k \o ":" \o variables[k]>> \o variable_args(variables, keys \ {k})

\* robot_runner.py:13-25: the command line of the robot process.
robot_cmd(suite_path, output_dir, variables, extra_args) ==
    <<"robot", "-d", output_dir, "--listener", "allure_robotframework">>
        \o (IF variables # None THEN variable_args(variables[1], DOMAIN variables[1])
            ELSE <<>>)
        \o (IF extra_args # None THEN extra_args[1] ELSE <<>>)
        \o <<suite_path>>

\* Mutant of run_robot_suite_report: the allure command is called with
\* check=True outside the try block.
run_robot_suite_report_checked(run_id, allure) ==
    /\ run_id \in DOMAIN tasks
    /\ tasks[run_id].pc = "stderr_written"
    /\ IF "allure-results" \notin tasks[run_id].files
       THEN /\ tasks' = [tasks EXCEPT ![run_id].pc = "reported"]
            /\ UNCHANGED running_tasks
       ELSE IF allure = "generated"
       THEN /\ tasks' = [tasks EXCEPT ![run_id].pc = "reported",
                                      ![run_id].report = allure,
                                      ![run_id].files = @ \cup {"allure-report"}]
            /\ UNCHANGED running_tasks
       ELSE /\ tasks' = [tasks EXCEPT ![run_id].pc = "done", ![run_id].report = allure,
                                      ![run_id].outcome = "raised"]
            /\ running_tasks' = [running_tasks EXCEPT
                                    ![run_id] = error_entry("allure: " \o allure,
                                                            tasks[run_id].suite_path)]
    /\ handler' = Delivered(handler)
    /\ qry' = Delivered(qry)
    /\ UNCHANGED <<db, restarts, returned, awaiting, evicted, seen>>

\* robot_runner.py:12-37 and robot.py:102-108: create the directory, build
\* the command and run it; when the executable cannot be started,
\* subprocess.run raises and the except clause of execute_robot_suite stores
\* the error.
run_robot_suite_launch(run_id, proc) ==
    /\ run_id \in DOMAIN tasks
    /\ tasks[run_id].pc = "executing"
    /\ IF proc.launched
       THEN /\ tasks' = [tasks EXCEPT ![run_id] =
                   [pc |-> "launched", suite_path |-> @.suite_path,
                    variables |-> @.variables, extra_args |-> @.extra_args,
                    outcome |-> "none", rc |-> None,
                    cmd |-> robot_cmd(@.suite_path, out_dir(run_id),
                                      @.variables, @.extra_args),
                    completed |-> [returncode |-> proc.returncode],
                    files |-> {"log.html", "report.html"}
                                 \cup (IF proc.results THEN {"allure-results"} ELSE {}),
                    report |-> "none"]]
            /\ UNCHANGED running_tasks
       ELSE /\ running_tasks' = [running_tasks EXCEPT
                                    ![run_id] = error_entry(
                                        "[Errno 2] No such file or directory: 'robot'",
                                        tasks[run_id].suite_path)]
            /\ tasks' = [tasks EXCEPT ![run_id].pc = "done", ![run_id].outcome = "raised"]
    /\ handler' = Delivered(handler)
    /\ qry' = Delivered(qry)
    /\ UNCHANGED <<db, restarts, returned, awaiting, evicted, seen>>

\* robot_runner.py:38-39: write stdout.txt.
run_robot_suite_stdout(run_id) ==
    /\ run_id \in DOMAIN tasks
    /\ tasks[run_id].pc = "launched"
    /\ tasks' = [tasks EXCEPT ![run_id].pc = "stdout_written",
                              ![run_id].files = @ \cup {"stdout.txt"}]
    /\ handler' = Delivered(handler)
    /\ qry' = Delivered(qry)
    /\ UNCHANGED <<db, running_tasks, restarts, returned, awaiting, evicted, seen>>

\* robot_runner.py:40-41: write stderr.txt.
run_robot_suite_stderr(run_id) ==
    /\ run_id \in DOMAIN tasks
    /\ tasks[run_id].pc = "stdout_written"
    /\ tasks' = [tasks EXCEPT ![run_id].pc = "stderr_written",
                              ![run_id].files = @ \cup {"stderr.txt"}]
    /\ handler' = Delivered(handler)
    /\ qry' = Delivered(qry)
    /\ UNCHANGED <<db, running_tasks, restarts, returned, awaiting, evicted, seen>>

\* robot_runner.py:44-50: when allure-results is a directory, call allure
\* with check=False; an exception (the command is absent) is swallowed.
run_robot_suite_report(run_id, allure) ==
    /\ run_id \in DOMAIN tasks
    /\ tasks[run_id].pc = "stderr_written"
    /\ IF "allure-results" \in tasks[run_id].files
       THEN tasks' = [tasks EXCEPT ![run_id].pc = "reported",
                                   ![run_id].report = allure,
                                   ![run_id].files =
                                       IF allure = "generated"
                                       THEN @ \cup {"allure-report"} ELSE @]
       ELSE tasks' = [tasks EXCEPT ![run_id].pc = "reported"]
    /\ handler' = Delivered(handler)
    /\ qry' = Delivered(qry)
    /\ UNCHANGED <<db, running_tasks, restarts, returned, awaiting, evicted, seen>>

\* robot_runner.py:51 and robot.py:76: return completed.returncode to
\* execute_robot_suite, which binds it to rc.
run_robot_suite_return(run_id) ==
    /\ run_id \in DOMAIN tasks
    /\ tasks[run_id].pc = "reported"
    /\ tasks' = [tasks EXCEPT ![run_id].pc = "returned",
                              ![run_id].rc = Some(tasks[run_id].completed.returncode)]
    /\ handler' = Delivered(handler)
    /\ qry' = Delivered(qry)
    /\ UNCHANGED <<db, running_tasks, restarts, returned, awaiting, evicted, seen>>

NextExecutor ==
    \/ \E body \in RobotRunRequest : trigger_robot_run_reject(body)
    \/ \E body \in RobotRunRequest : trigger_robot_run_insert(body)
    \/ trigger_robot_run_return
    \/ \E run_id \in RunIds : execute_robot_suite_status(run_id)
    \/ \E run_id \in RunIds : execute_robot_suite_message(run_id)
    \/ \E run_id \in RunIds, proc \in Processes : run_robot_suite_launch(run_id, proc)
    \/ \E run_id \in RunIds : run_robot_suite_stdout(run_id)
    \/ \E run_id \in RunIds : run_robot_suite_stderr(run_id)
    \/ \E run_id \in RunIds, allure \in AllureOutcomes : run_robot_suite_report(run_id, allure)
    \/ \E run_id \in RunIds : run_robot_suite_return(run_id)

\* Submissions and their background tasks up to the return of
\* run_robot_suite, with the steps of run_robot_suite in place of the single
\* step execute_robot_suite_run.
SpecExecutor == Init /\ [][NextExecutor]_vars

\* ===================================================================
\* Properties
\* ===================================================================
Statuses == {"running", "executing", "completed", "error"}

\* The status query that has just returned was the first one for a run id
\* made after trigger_robot_run returned that id.
FirstQueryDone == qry.pc = "done" /\ qry.first

\* C1 as stated: the first status query for a returned run id, made after
\* submit has returned, reports status running (never not-found, never
\* executing), however the background task is scheduled.
C1_FirstQueryRunning ==
    FirstQueryDone =>
        /\ qry.resp.status_code = 200
        /\ qry.resp.body.status = "running"

\* C1 amended: the first status query for a returned run id, made after
\* submit has returned, never reports not-found; it reports running exactly
\* when the background task of that run is still waiting to be started by
\* the process that accepted the submission, and one of executing,
\* completed, error otherwise (the task has started, or the process has
\* restarted).
C1_FirstQueryStatus ==
    FirstQueryDone =>
        /\ qry.resp.status_code = 200
        /\ qry.resp.body.status \in Statuses
        /\ qry.resp.body.status = "running" <=> tasks[qry.run_id].pc = "scheduled"

C1_Witness ==
    /\ FirstQueryDone
    /\ qry.resp.status_code = 200
    /\ qry.resp.body.status = "running"

\* The directory of a run: <cwd>/data/robot_runs/<run id>.
RunDir(i) == <<"/", "srv", "data", "robot_runs", ToString(i)>>

\* C2: a run whose executor returned an exit code rc and whose row update
\* succeeded never has tracker status error, and ends with tracker status
\* completed carrying return_code = rc, ok = (rc = 0) and the directory of
\* the run, its row holding the same three values.
C2_ExitCodeCompletes ==
    \A i \in DOMAIN tasks :
        LET t == tasks[i] IN
        (t.rc # None /\ t.outcome # "update_failed") =>
            /\ i \in DOMAIN running_tasks => running_tasks[i].status # "error"
            /\ t.pc = "done" =>
                /\ i \in DOMAIN running_tasks =>
                    /\ running_tasks[i].status = "completed"
                    /\ running_tasks[i].return_code = t.rc
                    /\ running_tasks[i].ok = (t.rc[1] = 0)
                    /\ running_tasks[i].output_dir = RunDir(i)
                /\ db[i].return_code = t.rc
                /\ db[i].ok = (t.rc[1] = 0)
                /\ db[i].output_dir = RunDir(i)

C2_Witness ==
    \E i \in DOMAIN tasks \cap DOMAIN running_tasks :
        /\ tasks[i].pc = "done"
        /\ tasks[i].rc = Some(1)
        /\ running_tasks[i].status = "completed"

\* The row of run i is as trigger_robot_run inserted it.
Placeholder(i) ==
    /\ db[i].output_dir = EmptyStr
    /\ db[i].return_code = None
    /\ db[i].ok = FALSE

\* C3: when an exception escaped the executor call of a run, the tracker
\* reports status error with a non-empty text for that run, and the row of
\* the run keeps its placeholder shape in every later state.
C3_ExceptionLeavesPlaceholder ==
    \A i \in DOMAIN tasks :
        tasks[i].outcome = "raised" =>
            /\ Placeholder(i)
            /\ i \in DOMAIN running_tasks =>
                /\ running_tasks[i].status = "error"
                /\ "error" \in DOMAIN running_tasks[i]
                /\ running_tasks[i].error # ""

C3_Witness ==
    \E i \in DOMAIN tasks \cap DOMAIN running_tasks :
        /\ tasks[i].outcome = "raised"
        /\ running_tasks[i].status = "error"

\* C4: a submit whose suite path does not exist is answered by a client
\* error and changes nothing: no row, no tracker entry, no run id, no
\* background task; a row is inserted only for a suite path that exists.
C4_RejectChangesNothing ==
    [][ /\ (handler'.resp.status_code = 400 /\ handler' # handler) =>
            /\ UNCHANGED <<db, running_tasks, tasks, returned, seen>>
            /\ NextId' = NextId
        /\ (handler'.pc = "inserted" /\ handler.pc # "inserted") =>
            normalized_path(handler'.body.suite_path) \in ExistingPaths ]_vars

C4_Witness ==
    /\ handler.pc = "done"
    /\ handler.resp.status_code = 400
    /\ DOMAIN db # {}

\* The run ids returned so far.
Returned == { returned[k] : k \in DOMAIN returned }

\* C5: the run ids returned by the submissions are pairwise distinct and
\* never reused; the tracker entry and the row of a run carry the suite
\* path, directory and exit code of that run only; and a step made for one
\* run leaves the entries and rows of all other runs as they are.
C5_RunsIndependent ==
    /\ [] /\ \A k, l \in DOMAIN returned : k # l => returned[k] # returned[l]
          /\ \A i \in DOMAIN tasks :
                 /\ db[i].suite_path = tasks[i].suite_path
                 /\ db[i].output_dir \in {EmptyStr, RunDir(i)}
                 /\ tasks[i].pc # "killed" => db[i].return_code \in {None, tasks[i].rc}
                 /\ i \in DOMAIN running_tasks =>
                        /\ running_tasks[i].suite_path = tasks[i].suite_path
                        /\ "output_dir" \in DOMAIN running_tasks[i]
                               => running_tasks[i].output_dir = RunDir(i)
                        /\ "return_code" \in DOMAIN running_tasks[i]
                               => running_tasks[i].return_code = tasks[i].rc
    /\ [][ /\ (handler'.pc = "inserted" /\ handler.pc # "inserted")
                   => handler'.run_id \notin DOMAIN db
            /\ \A i \in DOMAIN db :
                   \/ /\ db'[i] = db[i]
                      /\ i \in DOMAIN running_tasks =>
                             /\ i \in DOMAIN running_tasks'
                             /\ running_tasks'[i] = running_tasks[i]
                   \/ i \in DOMAIN tasks /\ tasks'[i] # tasks[i]
                   \/ restarts' # restarts ]_vars

C5_Witness ==
    \E i, j \in DOMAIN tasks :
        /\ i # j
        /\ tasks[i].suite_path # tasks[j].suite_path
        /\ tasks[i].pc = "committed"
        /\ tasks[j].pc = "executing"

\* C6: a status query returns the tracker entry of the id as it is when
\* there is one; when there is none it returns the completed view of the
\* row of the id; when there is no row either it fails with not-found; so
\* it fails exactly when the id was never given to a run, and never for a
\* returned id, also after a restart.
C6_ResolutionOrder ==
    qry.pc = "done" =>
        LET id == qry.run_id
            resp == qry.resp IN
        /\ id \in DOMAIN running_tasks =>
               resp = [status_code |-> 200, body |-> running_tasks[id]]
        /\ (id \notin DOMAIN running_tasks /\ id \in DOMAIN db) =>
               /\ resp.status_code = 200
               /\ resp.body.status = "completed"
               /\ resp.body.return_code = db[id].return_code
               /\ resp.body.ok = db[id].ok
               /\ resp.body.suite_path = db[id].suite_path
               /\ resp.body.output_dir = db[id].output_dir
        /\ resp.status_code = 404 <=> id \notin DOMAIN db
        /\ id \in Returned => resp.status_code = 200

C6_Witness ==
    /\ qry.pc = "done"
    /\ restarts > 0
    /\ qry.run_id \in Returned
    /\ qry.run_id \notin DOMAIN running_tasks
    /\ qry.resp.status_code = 200

\* C7: for a run that completed before a restart, a status query after the
\* restart returns a completed view whose return_code, ok, suite_path and
\* output_dir are those of the tracker entry lost by the restart.
C7_CompletedSurvivesRestart ==
    (qry.pc = "done" /\ qry.run_id \in DOMAIN evicted) =>
        /\ qry.resp.status_code = 200
        /\ qry.resp.body.status = "completed"
        /\ qry.resp.body.return_code = evicted[qry.run_id].return_code
        /\ qry.resp.body.ok = evicted[qry.run_id].ok
        /\ qry.resp.body.suite_path = evicted[qry.run_id].suite_path
        /\ qry.resp.body.output_dir = evicted[qry.run_id].output_dir

C7_Witness ==
    /\ qry.pc = "done"
    /\ qry.run_id \in DOMAIN evicted
    /\ qry.resp.status_code = 200
    /\ qry.resp.body.return_code = Some(1)

\* C8: every row has ok = TRUE exactly when its return_code is 0 (so a
\* placeholder row has ok = FALSE), and so has every view that a status
\* query builds from a row.
C8_OkIffZero ==
    /\ \A i \in DOMAIN db : db[i].ok <=> db[i].return_code = Some(0)
    /\ (qry.pc = "done" /\ qry.resp.status_code = 200
            /\ "created_at" \in DOMAIN qry.resp.body)
           => (qry.resp.body.ok <=> qry.resp.body.return_code = Some(0))

C8_Witness ==
    /\ qry.pc = "done"
    /\ qry.resp.status_code = 200
    /\ "created_at" \in DOMAIN qry.resp.body
    /\ qry.resp.body.return_code = Some(1)
    /\ \E i \in DOMAIN db : db[i].return_code = Some(0)

\* C9: at the step in which trigger_robot_run returns a run id, the
\* placeholder row and the running tracker entry of that id exist and the
\* background task of the run has not made any step.
C9_ReturnBeforeExecution ==
    [][ Len(returned') > Len(returned) =>
            LET id == returned'[Len(returned')] IN
            /\ handler'.pc = "done"
            /\ handler'.resp.status_code = 200
            /\ handler'.resp.body.run_id = id
            /\ id \in DOMAIN db'
            /\ db'[id].return_code = None
            /\ id \in DOMAIN running_tasks'
            /\ running_tasks'[id].status = "running"
            /\ tasks'[id].pc = "scheduled" ]_vars

C9_Witness ==
    /\ handler.pc = "done"
    /\ handler.resp.status_code = 200
    /\ \E i \in DOMAIN tasks : tasks[i].pc = "executing"

\* The order of the tracker statuses.
Rank(status) ==
    CASE status = "running" -> 0
      [] status = "executing" -> 1
      [] OTHER -> 2

\* C10: within a process lifetime the tracker status of a run changes only
\* from running to executing and from executing to completed or error; an
\* entry starts as running, is never removed, and does not change once it
\* is completed or error.
C10_StatusOrder ==
    [][ restarts' = restarts =>
           /\ \A i \in DOMAIN running_tasks :
                  /\ i \in DOMAIN running_tasks'
                  /\ LET old == running_tasks[i].status
                         new == running_tasks'[i].status IN
                     /\ new # old => Rank(new) = Rank(old) + 1
                     /\ Rank(old) = 2 => running_tasks'[i] = running_tasks[i]
           /\ \A i \in DOMAIN running_tasks' \ DOMAIN running_tasks :
                  running_tasks'[i].status = "running" ]_vars

C10_Witness ==
    \E i, j \in DOMAIN running_tasks :
        /\ running_tasks[i].status = "error"
        /\ running_tasks[j].status = "completed"

\* C11 as stated: every tracker transition is atomic for status queries: a
\* query never gets an entry whose status is executing without the message
\* of that transition, and the view that a status query returned is the view
\* that is delivered, whatever the run's task does in between.
C11_TransitionsAtomic ==
    (qry.pc = "done" /\ qry.resp.status_code = 200) =>
        /\ qry.resp.body.status = "executing" => "message" \in DOMAIN qry.resp.body
        /\ qry.resp = qry.ret

\* C12 as stated: run_preset does what trigger_robot_run does for the stored
\* suite_path, variables and extra_args of the preset: it accepts the run
\* only if the suite path exists, inserts the same placeholder row, stores
\* the same running entry (the preset name apart) and adds the same task.
C12_PresetAsSubmit ==
    [][ /\ (handler'.pc = "preset_inserted" /\ handler.pc # "preset_inserted") =>
            LET preset == RobotPreset[handler'.preset_id] IN
            /\ exists(normalized_path(preset.suite_path))
            /\ db' = (NextId :> RobotRun(normalized_path(preset.suite_path), now)) @@ db
        /\ (handler.pc = "preset_inserted" /\ handler'.pc = "done") =>
            LET preset == RobotPreset[handler.preset_id]
                id == handler.run_id
                entry == running_entry(normalized_path(preset.suite_path), now) IN
            /\ \A k \in DOMAIN entry : running_tasks'[id][k] = entry[k]
            /\ tasks'[id].pc = "scheduled"
            /\ tasks'[id].suite_path = normalized_path(preset.suite_path)
            /\ tasks'[id].variables = handler.variables
            /\ tasks'[id].extra_args = handler.extra_args
            /\ handler'.resp.status_code = 200
            /\ handler'.resp.body.run_id = id ]_vars

\* C13 as stated: the body of every successful status response, whatever
\* the status, has the keys status and suite_path and at least one of the
\* timestamps created_at, start_time, completion_time.
C13_ViewShape ==
    (qry.pc = "done" /\ qry.resp.status_code = 200) =>
        /\ {"status", "suite_path"} \subseteq DOMAIN qry.resp.body
        /\ {"created_at", "start_time", "completion_time"} \cap DOMAIN qry.resp.body # {}

\* The tracker entry of run i has a terminal status.
Terminal(i) ==
    /\ i \in DOMAIN running_tasks
    /\ running_tasks[i].status \in {"completed", "error"}

\* C14: in a process that keeps running, with run_robot_suite returning or
\* raising, every run that trigger_robot_run accepted (its row is inserted)
\* eventually has tracker status completed or error, also after an executor
\* exception or a failed row update.
C14_RunsTerminate ==
    \A i \in RunIds : (i \in DOMAIN db) ~> Terminal(i)

C14_Witness ==
    \E i, j \in DOMAIN tasks :
        /\ tasks[i].outcome = "update_failed" /\ Terminal(i)
        /\ tasks[j].outcome = "raised" /\ Terminal(j)

\* C15: a row is never deleted and keeps its suite_path and created_at; a
\* step changes the row of run i only if it is the row update of the task of
\* run i, which writes the exit code, ok and directory of that run; a row
\* that holds an exit code never changes again.  No step of a submit, a
\* preset submit, a status query or a listing changes a row.
C15_RowWrittenOnce ==
    [][ \A i \in DOMAIN db :
            /\ i \in DOMAIN db'
            /\ db'[i].suite_path = db[i].suite_path
            /\ db'[i].created_at = db[i].created_at
            /\ db[i].return_code # None => db'[i] = db[i]
            /\ db'[i] # db[i] =>
                   /\ i \in DOMAIN tasks
                   /\ tasks[i].pc = "returned"
                   /\ tasks'[i].pc = "committed"
                   /\ \A j \in DOMAIN tasks \ {i} : tasks'[j] = tasks[j]
                   /\ handler' = Delivered(handler)
                   /\ qry' = Delivered(qry)
                   /\ db'[i].return_code = tasks[i].rc
                   /\ db'[i].return_code # None
                   /\ db'[i].ok = (tasks[i].rc[1] = 0)
                   /\ db'[i].output_dir = RunDir(i) ]_vars

C15_Witness ==
    /\ handler.pc = "preset_inserted"
    /\ qry.pc = "done"
    /\ qry.run_id = 0
    /\ \E i \in DOMAIN db : db[i].return_code = Some(1)

\* The row of run i tells what the terminal tracker entry of run i tells:
\* the exit code, ok and directory of a completed entry; for an error entry,
\* at least that the run is over (it is no placeholder any more).
Reflects(i) ==
    IF running_tasks[i].status = "completed"
    THEN /\ db[i].return_code = running_tasks[i].return_code
         /\ db[i].ok = running_tasks[i].ok
         /\ db[i].output_dir = running_tasks[i].output_dir
    ELSE ~Placeholder(i)

\* C16 as stated: once the tracker entry of a run is completed or error, the
\* row of the run eventually reflects the same outcome.
C16_RecordFollowsTracker ==
    \A i \in RunIds : Terminal(i) ~> (Terminal(i) /\ Reflects(i))

\* C16 amended: once the tracker entry of a run is completed, the row of the
\* run holds the same return_code, ok and output_dir, at once and from then
\* on; once the entry is error, the row is a placeholder and stays one: it
\* never reflects the error.
C16_RecordFollowsCompleted ==
    /\ [] \A i \in DOMAIN running_tasks :
              /\ running_tasks[i].status = "completed" => Reflects(i)
              /\ running_tasks[i].status = "error" => Placeholder(i)
    /\ [][ \A i \in DOMAIN running_tasks : Terminal(i) => db'[i] = db[i] ]_vars

C16_Witness ==
    \E i, j \in DOMAIN running_tasks :
        /\ running_tasks[i].status = "error" /\ Placeholder(i)
        /\ tasks[i].outcome = "update_failed"
        /\ running_tasks[j].status = "completed" /\ db[j].return_code = Some(0)

\* The tasks that are inside run_robot_suite after the robot process ended,
\* or have returned from it.
InExecutor(i) ==
    /\ i \in DOMAIN tasks
    /\ tasks[i].pc \in {"launched", "stdout_written", "stderr_written",
                         "reported", "returned"}

\* C17: the Suite Executor returns the exit code of the suite process
\* verbatim; stdout.txt and stderr.txt are written for every exit code before
\* report generation is attempted; report generation is attempted only when
\* the results subdirectory exists; and whatever the report-generation step
\* does (success, non-zero exit, tool absent), the call goes on to return the
\* same exit code and stores no error.
C17_ExecutorExitCode ==
    /\ [](\A i \in RunIds : InExecutor(i) =>
            /\ tasks[i].report # "none" =>
                   /\ "allure-results" \in tasks[i].files
                   /\ {"stdout.txt", "stderr.txt"} \subseteq tasks[i].files
            /\ tasks[i].pc \in {"reported", "returned"} =>
                   {"stdout.txt", "stderr.txt"} \subseteq tasks[i].files
            /\ tasks[i].pc = "returned" =>
                   tasks[i].rc = Some(tasks[i].completed.returncode))
    /\ [][\A i \in RunIds :
             (InExecutor(i) /\ tasks'[i] # tasks[i]) =>
                 /\ tasks'[i].pc # "done"
                 /\ running_tasks'[i] = running_tasks[i]
                 /\ tasks'[i].completed = tasks[i].completed]_vars

\* A suite process that exited with 1 and left results, a report step that
\* found no allure command, and the call has returned 1.
C17_Witness ==
    \E i \in RunIds :
        /\ InExecutor(i)
        /\ tasks[i].pc = "returned"
        /\ tasks[i].report = "absent"
        /\ tasks[i].rc = Some(1)

\* C18 as stated: the statuses that successive status queries for one run id
\* see never go backwards in the order running < executing < terminal, for
\* every interleaving of the queries with the submit handlers and the
\* background task.
C18_SeenNeverBackwards ==
    [][\A i \in DOMAIN seen :
           i \in DOMAIN seen' /\ Rank(seen'[i]) >= Rank(seen[i])]_vars

\* C19: whenever the tracker entry of a run is completed, the row of the run
\* holds the return_code, ok and output_dir of the entry; the row holds the
\* exit code already when the task has committed and not yet replaced the
\* entry; so a status query answered from the tracker never reports
\* completed while the row is a placeholder.
C19_RowBeforeTracker ==
    /\ \A i \in DOMAIN running_tasks : running_tasks[i].status = "completed" =>
            /\ i \in DOMAIN db
            /\ db[i].return_code = running_tasks[i].return_code
            /\ db[i].ok = running_tasks[i].ok
            /\ db[i].output_dir = running_tasks[i].output_dir
            /\ ~Placeholder(i)
    /\ \A i \in DOMAIN tasks : tasks[i].pc = "committed" =>
            /\ running_tasks[i].status = "executing"
            /\ db[i].return_code = tasks[i].rc
            /\ db[i].output_dir = out_dir(i)
    /\ ( /\ qry.pc = "done"
         /\ qry.run_id \in DOMAIN running_tasks
         /\ qry.resp.body.status = "completed" ) => ~Placeholder(qry.run_id)

\* A status query has just been answered completed from the tracker entry of
\* a run whose suite exited with 1.
C19_Witness ==
    /\ qry.pc = "done"
    /\ qry.run_id \in DOMAIN running_tasks
    /\ qry.resp.status_code = 200
    /\ qry.resp.body.status = "completed"
    /\ qry.resp.body.return_code = Some(1)
    /\ db[qry.run_id].return_code = Some(1)

\* The executor call of run i has returned an exit code that the process
\* still holds or has stored: the task holds it, has gone on from it, or was
\* killed after it had written it to the row.
ExecutorReturned(i) ==
    /\ i \in DOMAIN tasks
    /\ \/ tasks[i].rc # None
       \/ tasks[i].outcome \in {"completed", "update_failed"}
       \/ tasks[i].pc = "killed" /\ db[i].return_code # None

\* C20 as stated: a status query never reports completed for a run whose
\* executor call has not returned an exit code: a run still in flight, a run
\* that ended in error, or a run interrupted by a restart.
C20_CompletedOnlyAfterExit ==
    ( /\ qry.pc = "done"
      /\ qry.resp.status_code = 200
      /\ qry.resp.body.status = "completed" ) => ExecutorReturned(qry.run_id)

====
